---- MODULE Spec2Model ----
(***************************************************************************)
(* Model of the comfyui-Banana-API-2 batch generation pipeline:            *)
(*   - BatchGenerationRunner.run / _run_parallel / _run_sequential         *)
(*     (task_runner.py) driven by BananaImageNode.generate_images and the  *)
(*     worker BananaImageNode.generate_single_image;                       *)
(*   - GeminiApiClient.send_request (api_client.py), with time in          *)
(*     milliseconds;                                                       *)
(*   - GeminiApiClient._interruptible_post, the polling wait;              *)
(*   - ImageCodec.base64_to_tensor_parallel, the decode pool, and          *)
(*     ImageCodec.prepare_input_images with its cache (image_codec.py).    *)
(* Six specifications share the module: Spec (the runner), SpecSend        *)
(* (one send_request call), SpecPost (the _interruptible_post calls of     *)
(* one worker thread), SpecDecode (one base64_to_tensor_parallel call),    *)
(* SpecCache (a sequence of prepare_input_images calls on one ImageCodec)  *)
(* and SpecCacheConc (threads calling prepare_input_images on one          *)
(* ImageCodec).                                                            *)
(***************************************************************************)
EXTENDS Integers, Sequences, FiniteSets, TLC

VARIABLES
    \* ---- BatchGenerationRunner.run ----
    batch_size,         \* run's batch_size; the task list has batch_size tasks
    actual_workers,     \* run's actual_workers
    continue_on_error,  \* run's continue_on_error
    worker_fn,          \* "generate_single_image", or "other": a worker that may raise
    interrupted,        \* the processing-interrupted flag (level-triggered)
    jobState,           \* per task index: new / queued / running / finished / cancelled
    jobOutcome,         \* per task index: none / ok / fail / interrupt / raise
    pending,            \* _run_parallel: futures not yet returned by wait()
    done,               \* _run_parallel: futures of the current wait() round still to process
    results,            \* the runner's results list
    completed,          \* the runner's completed counter
    should_stop,        \* _run_parallel: should_stop
    seq_next,           \* _run_sequential: index of the next task of the for loop
    progress,           \* the progress_callback invocations made so far
    runPc,              \* start / wait / process / seq / seq_running / returned / raised / raised_error
    returned,           \* the list run returned to its caller (<<>> when it raised)
    sortedResults,      \* generate_images: results after results.sort(key=index)
    prompt_ok,          \* create_request_data accepts the prompt and the input images
    jobPosts,           \* per task index: the attempts its send_request has begun
    unreported,         \* _run_parallel: the ended jobs run has not processed, in the order they ended
    \* ---- GeminiApiClient.send_request (time in milliseconds) ----
    arg_timeout,        \* the timeout argument
    arg_max_retries,    \* the max_retries argument ("None" or an integer)
    connect_timeout,    \* connect_timeout of _resolve_timeout
    read_timeout_global,\* read_timeout_global of _resolve_timeout ("None": no limit)
    effective_max_retries,
    attempt,            \* the loop variable
    attempt_delay,      \* the backoff of the next sleep
    now,                \* the clock, time.time()
    global_start,       \* global_start
    start,              \* start of the current attempt
    posts,              \* number of POSTs issued by the call
    read_passed,        \* per POST: the read timeout handed to _interruptible_post
    post_at,            \* per POST: the clock when it was issued
    sleeps,             \* per sleep: <<attempt it follows, its length>>
    last_net,           \* what the network did to the last POST
    last_status,        \* HTTP status of the last response (0: none)
    last_error_phase,   \* last_error_phase
    sr_pc,              \* idle / call / top / posting / sleep / done
    sr_exit,            \* how the call ended
    int_at,             \* the clock when the interrupt was raised (-1: not raised)
    resp_body,          \* the body of the last response (<<>>: no response yet)
    error_text,         \* the message of the RuntimeError the call raised
    \* ---- GeminiApiClient._interruptible_post (time in milliseconds) ----
    p_timeout,          \* the timeout argument: connect and read
    p_now,              \* the clock
    p_wait_start,       \* when the current done_event.wait(poll_interval) began
    p_done_event,       \* done_event
    p_net,              \* what the request thread ended with: none / response / exception / timeout
    p_int_at,           \* the clock when the interrupt was raised (-1: not raised)
    p_session_closed,   \* session.close() was called
    p_thread_local,     \* the thread-local slot: "session" or "None"
    p_pc,               \* idle / call / waiting / returned / raised / cancelled
    p_first,            \* which came first in this call: none / net / interrupt
    p_session,          \* the session this call posts with (sessions are numbered)
    p_calls,            \* the calls the worker thread has made so far
    \* ---- ImageCodec.base64_to_tensor_parallel ----
    d_payloads,         \* base64_strings
    d_workers,          \* effective_workers
    d_state,            \* per payload: new / queued / running / finished / collected / cancelled
    d_decoded,          \* per payload: what base64_to_tensor_single returned
    d_results,          \* results: per payload None or an image
    d_out,              \* the images of the tensor the call returned
    d_pc,               \* idle / call / collect / returned / raised_error / raised
    \* ---- ImageCodec.prepare_input_images and its cache ----
    cache_size,         \* _cache_size
    image_cache,        \* _image_cache: <<key, value>> pairs, oldest first
    c_image,            \* the image of the last prepare_input_images call
    c_encoded,          \* what the last call returned for it
    c_hit,              \* the last call found the key in the cache
    c_evicted,          \* the keys the last call evicted
    c_clock,            \* the number of calls made so far
    c_last_use,         \* per key: the call that inserted or hit it last
    c_pc,               \* idle / ready / threads
    \* ---- ImageCodec: threads sharing one cache ----
    cache_lock,         \* _cache_lock: 0 when free, else the thread holding it
    k_pc,               \* per thread: idle / get_wait / get / encode / set_wait / set
    k_image,            \* per thread: the sample being prepared
    k_value,            \* per thread: cached_value, then base64_value
    k_calls             \* the prepare_input_images calls begun so far

runVars == <<batch_size, actual_workers, continue_on_error, worker_fn, interrupted,
             jobState, jobOutcome, pending, done, results, completed, should_stop,
             seq_next, progress, runPc, returned, sortedResults, prompt_ok, jobPosts,
             unreported>>

sendVars == <<arg_timeout, arg_max_retries, connect_timeout, read_timeout_global,
              effective_max_retries, attempt, attempt_delay, now, global_start, start,
              posts, read_passed, post_at, sleeps, last_net, last_status,
              last_error_phase, sr_pc, sr_exit, int_at, resp_body, error_text>>

postVars == <<p_timeout, p_now, p_wait_start, p_done_event, p_net, p_int_at,
              p_session_closed, p_thread_local, p_pc, p_first, p_session, p_calls>>

decVars == <<d_payloads, d_workers, d_state, d_decoded, d_results, d_out, d_pc>>

concVars == <<cache_lock, k_pc, k_image, k_value, k_calls>>

cacheVars == <<cache_size, image_cache, c_image, c_encoded, c_hit, c_evicted, c_clock,
               c_last_use, c_pc, concVars>>

codecVars == <<decVars, cacheVars>>

vars == <<runVars, sendVars, postVars, codecVars>>

\* ---------------------------------------------------------------- bounds
MaxBatch == 3
MaxWorkers == 2

\* ---------------------------------------------------------------- constants
\* class constants of GeminiApiClient, in milliseconds
DEFAULT_CONNECT_TIMEOUT == 15000
DEFAULT_READ_TIMEOUT == 420000
MAX_RETRIES == 2
BASE_BACKOFF == 2000
RETRYABLE_STATUS == {408, 409, 425, 429, 500, 502, 503, 504}
\* _resolve_timeout: connect = max(1.0, connect), read = max(5.0, read)
MinConnectTimeout == 1000
MinReadTimeout == 5000
\* exceeded_connect_budget = duration > (connect_timeout + 1.0)
ConnectSlack == 1000
\* _interruptible_post: poll_interval = 0.25
PollInterval == 250

\* ---------------------------------------------------------------- helpers
Jobs == 0 .. (batch_size - 1)

Min(S) == CHOOSE x \in S : \A y \in S : x <= y

\* list.sort(key=lambda x: x['index']): a stable insertion sort by index
RECURSIVE InsertByIndex(_, _)
InsertByIndex(r, s) ==
    IF s = <<>> THEN <<r>>
    ELSE IF r.index < Head(s).index THEN <<r>> \o s
    ELSE <<Head(s)>> \o InsertByIndex(r, Tail(s))

RECURSIVE SortByIndex(_)
SortByIndex(s) ==
    IF s = <<>> THEN <<>>
    ELSE InsertByIndex(s[Len(s)], SortByIndex(SubSeq(s, 1, Len(s) - 1)))

\* variant of SortResults: the list is used as run returned it
SortByIndexIdentity(s) == s

\* generate_images, line 493: results.sort(key=lambda x: x['index'])
SortResults(s) == SortByIndex(s)

IsAscending(s) == \A a, b \in 1 .. Len(s) : a < b => s[a].index <= s[b].index

SamePermutation(s, t) ==
    /\ Len(s) = Len(t)
    /\ \A r \in {s[a] : a \in 1 .. Len(s)} \cup {t[a] : a \in 1 .. Len(t)} :
          Cardinality({a \in 1 .. Len(s) : s[a] = r})
              = Cardinality({a \in 1 .. Len(t) : t[a] = r})

\* variant of WorkerResult: the failure dict does not carry the task's index
WorkerResultFailureLosesIndex(i, outcome) ==
    [index |-> IF outcome = "ok" THEN i ELSE -1, success |-> outcome = "ok"]

\* The dict generate_single_image returns: index i in both the success dict and
\* _build_failure_result(i, ...)
WorkerResult(i, outcome) == [index |-> i, success |-> outcome = "ok"]

\* _run_parallel, lines 104-106: a worker exception becomes an index -1 failure
ExceptionResult == [index |-> -1, success |-> FALSE]

ResultOf(i) ==
    IF jobOutcome[i] = "raise" THEN ExceptionResult ELSE WorkerResult(i, jobOutcome[i])

\* variant of CancelQueued: nothing is cancelled
CancelNothing(st) == st

\* Future.cancel() on every future still held, then
\* executor.shutdown(wait=False, cancel_futures=True): a future that has not
\* begun running is cancelled, a running or finished one is left alone.  The
\* cancel loop and the shutdown are taken as one step: a job that begins between
\* two cancel calls is a job that began before the step.
CancelQueued(st) ==
    [j \in DOMAIN st |-> IF st[j] = "queued" THEN "cancelled" ELSE st[j]]

\* variant of ClientCheckRaises: the client was built without interrupt_checker
ClientCheckRaisesNoChecker == FALSE

\* GeminiApiClient._ensure_not_interrupted (api_client.py, lines 179-181), the
\* client being built with interrupt_checker (Gemini_Imagen_Generator.py, lines
\* 39-43): it raises while the flag is up
ClientCheckRaises == interrupted

\* BananaImageNode._ensure_not_interrupted (lines 164-167)
NodeCheckRaises == interrupted

\* The outcomes a running worker can end with.  generate_single_image returns
\* the success dict only after a POST of its send_request was answered, and
\* create_request_data raises ValueError (api_client.py, lines 84-86) for an
\* empty prompt without input images, which ends the job as a failure before
\* send_request is reached; it re-raises the interrupt its checks raise.
\* Another worker_fn may also raise any exception.
Outcomes(j) ==
    {"fail"}
        \cup (IF worker_fn = "other" \/ (prompt_ok /\ jobPosts[j] >= 1)
              THEN {"ok"} ELSE {})
        \cup (IF NodeCheckRaises THEN {"interrupt"} ELSE {})
        \cup (IF worker_fn = "other" THEN {"raise"} ELSE {})

\* variant of StopOnFailure: any failure stops the batch
StopOnFailureAlways(result) == ~result.success

\* _run_parallel, line 112, and _run_sequential, line 145
StopOnFailure(result) == ~continue_on_error /\ ~result.success

Running == {j \in Jobs : jobState[j] = "running"}
Queued == {j \in Jobs : jobState[j] = "queued"}

IsParallel == actual_workers > 1 /\ batch_size > 1

\* the send_request variables while no call is modelled
SendIdle ==
    /\ arg_timeout = [kind |-> "none", c |-> 0, r |-> <<>>]
    /\ arg_max_retries = <<>>
    /\ connect_timeout = 0
    /\ read_timeout_global = <<>>
    /\ effective_max_retries = 0
    /\ attempt = 0
    /\ attempt_delay = 0
    /\ now = 0
    /\ global_start = 0
    /\ start = 0
    /\ posts = 0
    /\ read_passed = <<>>
    /\ post_at = <<>>
    /\ sleeps = <<>>
    /\ last_net = "none"
    /\ last_status = 0
    /\ last_error_phase = "None"
    /\ sr_pc = "idle"
    /\ sr_exit = "none"
    /\ int_at = -1
    /\ resp_body = <<>>
    /\ error_text = <<>>

\* the _interruptible_post variables while no call is modelled
PostIdle ==
    /\ p_timeout = [c |-> 0, r |-> <<>>]
    /\ p_now = 0
    /\ p_wait_start = 0
    /\ p_done_event = FALSE
    /\ p_net = "none"
    /\ p_int_at = -1
    /\ p_session_closed = FALSE
    /\ p_thread_local = "session"
    /\ p_pc = "idle"
    /\ p_first = "none"
    /\ p_session = 0
    /\ p_calls = 0

\* the base64_to_tensor_parallel variables while no call is modelled
DecodeIdle ==
    /\ d_payloads = <<>>
    /\ d_workers = 0
    /\ d_state = <<>>
    /\ d_decoded = <<>>
    /\ d_results = <<>>
    /\ d_out = <<>>
    /\ d_pc = "idle"

\* the cache variables while no prepare_input_images call is modelled
ConcIdle ==
    /\ cache_lock = 0
    /\ k_pc = <<>>
    /\ k_image = <<>>
    /\ k_value = <<>>
    /\ k_calls = 0

CacheIdle ==
    /\ cache_size = 1
    /\ image_cache = <<>>
    /\ c_image = <<>>
    /\ c_encoded = <<>>
    /\ c_hit = FALSE
    /\ c_evicted = <<>>
    /\ c_clock = 0
    /\ c_last_use = <<>>
    /\ c_pc = "idle"
    /\ ConcIdle

CodecIdle == DecodeIdle /\ CacheIdle

\* ---------------------------------------------------------------- runner: initial state
\* generate_images, lines 447-450: the pool size it passes to run is
\* min(network_workers_cap, batch_size) for a batch of several jobs, 1 otherwise
ActualWorkers(n) ==
    {IF n > 1 THEN (IF cap <= n THEN cap ELSE n) ELSE 1 : cap \in 1 .. MaxWorkers}

RunInit ==
    /\ batch_size \in 0 .. MaxBatch
    /\ actual_workers \in ActualWorkers(batch_size)
    /\ continue_on_error \in BOOLEAN
    /\ worker_fn \in {"generate_single_image", "other"}
    /\ interrupted = FALSE
    /\ jobState = [j \in Jobs |-> "new"]
    /\ jobOutcome = [j \in Jobs |-> "none"]
    /\ pending = {}
    /\ done = {}
    /\ results = <<>>
    /\ completed = 0
    /\ should_stop = FALSE
    /\ seq_next = 0
    /\ progress = <<>>
    /\ runPc = "start"
    /\ returned = <<>>
    /\ sortedResults = <<>>
    /\ prompt_ok \in BOOLEAN
    /\ jobPosts = [j \in Jobs |-> 0]
    /\ unreported = <<>>
    /\ SendIdle
    /\ PostIdle
    /\ CodecIdle

\* ---------------------------------------------------------------- exits of run
\* run returns its results list; generate_images then sorts it (line 493)
ReturnResults(res, st) ==
    /\ runPc' = "returned"
    /\ returned' = res
    /\ sortedResults' = SortResults(res)
    /\ jobState' = st

\* variant of InterruptExit: the interrupt is swallowed and the partial
\* results are returned sorted
InterruptExitReturnsPartial(st) ==
    /\ runPc' = "returned"
    /\ returned' = SortByIndex(results)
    /\ sortedResults' = SortByIndex(results)
    /\ jobState' = st

\* InterruptProcessingException leaves run: lines 100-103 (cancel, raise) and the
\* finally of line 121; in the sequential path the exception simply propagates.
\* Nothing is returned, the results list is discarded with the frame.
InterruptExit(st) ==
    /\ runPc' = "raised"
    /\ returned' = <<>>
    /\ sortedResults' = <<>>
    /\ jobState' = st

\* ---------------------------------------------------------------- the interrupt
\* the user cancels the prompt
Interrupt ==
    /\ ~interrupted
    /\ UNCHANGED <<sendVars, postVars, codecVars>>
    /\ interrupted' = TRUE
    /\ UNCHANGED <<batch_size, actual_workers, continue_on_error, worker_fn, prompt_ok,
                   jobPosts, unreported,
                   jobState, jobOutcome, pending, done, results, completed,
                   should_stop, seq_next, progress, runPc, returned, sortedResults>>

\* ---------------------------------------------------------------- run (lines 26-61)
RunBegin ==
    /\ runPc = "start"
    /\ UNCHANGED <<sendVars, postVars, codecVars>>
    /\ UNCHANGED <<batch_size, actual_workers, continue_on_error, worker_fn, prompt_ok,
                   jobPosts, unreported,
                   interrupted, jobOutcome, done, results, completed, should_stop,
                   seq_next, progress>>
    /\ IF batch_size <= 0
       THEN /\ ReturnResults(<<>>, jobState)
            /\ UNCHANGED pending
       ELSE IF interrupted
       THEN /\ InterruptExit(jobState)
            /\ UNCHANGED pending
       ELSE IF IsParallel
       THEN \* lines 79-83: every task is submitted to the executor
            /\ jobState' = [j \in Jobs |-> "queued"]
            /\ pending' = Jobs
            /\ runPc' = "wait"
            /\ UNCHANGED <<returned, sortedResults>>
       ELSE /\ runPc' = "seq"
            /\ UNCHANGED <<jobState, pending, returned, sortedResults>>

\* ---------------------------------------------------------------- pool workers
\* variant of PoolHasIdleThread: the pool starts a thread for every queued job
PoolHasIdleThreadAlways == TRUE

\* line 75: ThreadPoolExecutor(max_workers=actual_workers) runs at most
\* actual_workers work items at a time
PoolHasIdleThread == Cardinality(Running) < actual_workers

\* variant of ProgressCall: the counter is passed before it is incremented
ProgressCallStaleCounter(result, k) ==
    [index |-> result.index, completed |-> k - 1, total |-> batch_size]

\* lines 110 and 142: progress_callback(result, completed, batch_size, progress_bar)
ProgressCall(result, k) ==
    [index |-> result.index, completed |-> k, total |-> batch_size]

\* A pool thread takes the next work item of the FIFO queue and calls
\* generate_single_image, whose first statement (line 204) checks the interrupt.
WorkerStart ==
    /\ Queued # {}
    /\ UNCHANGED <<sendVars, postVars, codecVars>>
    /\ PoolHasIdleThread
    /\ LET j == Min(Queued) IN
         IF NodeCheckRaises
         THEN /\ jobState' = [jobState EXCEPT ![j] = "finished"]
              /\ jobOutcome' = [jobOutcome EXCEPT ![j] = "interrupt"]
              /\ unreported' = Append(unreported, j)
         ELSE /\ jobState' = [jobState EXCEPT ![j] = "running"]
              /\ UNCHANGED <<jobOutcome, unreported>>
    /\ UNCHANGED <<batch_size, actual_workers, continue_on_error, worker_fn, prompt_ok,
                   jobPosts,
                   interrupted, pending, done, results, completed, should_stop,
                   seq_next, progress, runPc, returned, sortedResults>>

\* generate_single_image ends: a result dict (lines 288-296, 304), the
\* re-raised interrupt (lines 297-299) or, for another worker_fn, an exception
WorkerFinish(j) ==
    /\ IsParallel
    /\ UNCHANGED <<sendVars, postVars, codecVars>>
    /\ jobState[j] = "running"
    /\ \E o \in Outcomes(j) :
         /\ jobState' = [jobState EXCEPT ![j] = "finished"]
         /\ jobOutcome' = [jobOutcome EXCEPT ![j] = o]
         /\ unreported' = Append(unreported, j)
    /\ UNCHANGED <<batch_size, actual_workers, continue_on_error, worker_fn, prompt_ok,
                   jobPosts,
                   interrupted, pending, done, results, completed, should_stop,
                   seq_next, progress, runPc, returned, sortedResults>>

\* generate_single_image has built the request (lines 214-229) and its
\* send_request begins an attempt (api_client.py, lines 392-417): the interrupt
\* check at the head of the loop, then the POST.  The interrupt the check raises
\* leaves generate_single_image (lines 297-299); in the sequential path it
\* leaves run as well.
WorkerAttempt(j) ==
    /\ jobState[j] = "running"
    /\ worker_fn = "generate_single_image"
    /\ prompt_ok
    /\ jobPosts[j] < MAX_RETRIES
    /\ UNCHANGED <<sendVars, postVars, codecVars>>
    /\ UNCHANGED <<batch_size, actual_workers, continue_on_error, worker_fn, prompt_ok,
                   interrupted, pending, done, results, completed, should_stop,
                   seq_next, progress>>
    /\ IF ClientCheckRaises
       THEN /\ jobOutcome' = [jobOutcome EXCEPT ![j] = "interrupt"]
            /\ UNCHANGED jobPosts
            /\ IF IsParallel
               THEN /\ jobState' = [jobState EXCEPT ![j] = "finished"]
                    /\ unreported' = Append(unreported, j)
                    /\ UNCHANGED <<runPc, returned, sortedResults>>
               ELSE /\ InterruptExit([jobState EXCEPT ![j] = "finished"])
                    /\ UNCHANGED unreported
       ELSE /\ jobPosts' = [jobPosts EXCEPT ![j] = @ + 1]
            /\ UNCHANGED <<jobState, jobOutcome, runPc, returned, sortedResults,
                           unreported>>

\* ---------------------------------------------------------------- _run_parallel
\* lines 86-93: wait(pending, timeout=0.1, FIRST_COMPLETED); an empty done set
\* only repeats the wait
Wait ==
    /\ runPc = "wait"
    /\ UNCHANGED <<sendVars, postVars, codecVars>>
    /\ LET d == {j \in pending : jobState[j] = "finished"} IN
         /\ d # {}
         /\ done' = d
         /\ pending' = pending \ d
    /\ runPc' = "process"
    /\ UNCHANGED <<batch_size, actual_workers, continue_on_error, worker_fn, prompt_ok,
                   jobPosts, unreported,
                   interrupted, jobState, jobOutcome, results, completed,
                   should_stop, seq_next, progress, returned, sortedResults>>

\* lines 95-119 for one future of the done set, and what follows it: the next
\* future, the next wait, the stop (lines 116-119) or the return (lines 121-123)
Process(f) ==
    /\ runPc = "process"
    /\ UNCHANGED <<sendVars, postVars, codecVars>>
    /\ f \in done
    /\ UNCHANGED <<batch_size, actual_workers, continue_on_error, worker_fn, prompt_ok,
                   jobPosts,
                   interrupted, jobOutcome, seq_next>>
    /\ IF interrupted \/ jobOutcome[f] = "interrupt"
       THEN \* lines 98-103
            /\ InterruptExit(CancelQueued(jobState))
            /\ UNCHANGED <<pending, done, results, completed, should_stop, progress,
                           unreported>>
       ELSE LET result == ResultOf(f)
                res == Append(results, result)
            IN
            /\ results' = res
            /\ completed' = completed + 1
            /\ progress' = Append(progress, ProgressCall(result, completed + 1))
            /\ unreported' = SelectSeq(unreported, LAMBDA j : j # f)
            /\ IF StopOnFailure(result)
               THEN \* lines 112-119, 121, 123
                    /\ should_stop' = TRUE
                    /\ done' = done \ {f}
                    /\ UNCHANGED pending
                    /\ ReturnResults(res, CancelQueued(jobState))
               ELSE /\ done' = done \ {f}
                    /\ UNCHANGED <<should_stop, pending>>
                    /\ IF done \ {f} # {}
                       THEN /\ runPc' = "process"
                            /\ UNCHANGED <<jobState, returned, sortedResults>>
                       ELSE IF pending # {}
                       THEN /\ runPc' = "wait"
                            /\ UNCHANGED <<jobState, returned, sortedResults>>
                       ELSE ReturnResults(res, CancelQueued(jobState))

\* ---------------------------------------------------------------- _run_sequential
\* lines 137-139: the interrupt check, then worker_fn(task) on the calling thread
SeqStart ==
    /\ runPc = "seq"
    /\ UNCHANGED <<sendVars, postVars, codecVars>>
    /\ UNCHANGED <<batch_size, actual_workers, continue_on_error, worker_fn, prompt_ok,
                   jobPosts, unreported,
                   interrupted, jobOutcome, pending, done, results, completed,
                   should_stop, seq_next, progress>>
    /\ IF interrupted
       THEN InterruptExit(jobState)
       ELSE /\ jobState' = [jobState EXCEPT ![seq_next] = "running"]
            /\ runPc' = "seq_running"
            /\ UNCHANGED <<returned, sortedResults>>

\* lines 139-147: worker_fn returns or raises
SeqFinish ==
    /\ runPc = "seq_running"
    /\ UNCHANGED <<sendVars, postVars, codecVars>>
    /\ UNCHANGED <<batch_size, actual_workers, continue_on_error, worker_fn, prompt_ok,
                   jobPosts, unreported,
                   interrupted, pending, done, should_stop>>
    /\ \E o \in Outcomes(seq_next) :
         LET st == [jobState EXCEPT ![seq_next] = "finished"]
             result == WorkerResult(seq_next, o)
             res == Append(results, result)
         IN
         /\ jobOutcome' = [jobOutcome EXCEPT ![seq_next] = o]
         /\ IF o = "interrupt"
            THEN /\ InterruptExit(st)
                 /\ UNCHANGED <<results, completed, progress, seq_next>>
            ELSE IF o = "raise"
            THEN \* no handler in _run_sequential: the exception leaves run
                 /\ runPc' = "raised_error"
                 /\ jobState' = st
                 /\ UNCHANGED <<results, completed, progress, seq_next, returned,
                                sortedResults>>
            ELSE /\ results' = res
                 /\ completed' = completed + 1
                 /\ progress' = Append(progress, ProgressCall(result, completed + 1))
                 /\ seq_next' = seq_next + 1
                 /\ IF StopOnFailure(result) \/ seq_next + 1 >= batch_size
                    THEN ReturnResults(res, st)
                    ELSE /\ runPc' = "seq"
                         /\ jobState' = st
                         /\ UNCHANGED <<returned, sortedResults>>

RunNext ==
    \/ Interrupt
    \/ RunBegin
    \/ WorkerStart
    \/ \E j \in Jobs : WorkerAttempt(j)
    \/ \E j \in Jobs : WorkerFinish(j)
    \/ Wait
    \/ \E f \in Jobs : Process(f)
    \/ SeqStart
    \/ SeqFinish

Spec == RunInit /\ [][RunNext]_vars

\* ================================================================ send_request

\* largest max_retries argument of the model
MaxRetriesArg == 4

Max2(a, b) == IF a >= b THEN a ELSE b
Min2(a, b) == IF a <= b THEN a ELSE b

\* An optional value is <<>> (None) or <<v>>.
None == <<>>
Some(v) == <<v>>
IsNone(o) == o = <<>>
Val(o) == o[1]

\* the timeout arguments of the model: (connect, read) tuples, a scalar, None
TimeoutArgs ==
    { [kind |-> "tuple", c |-> 1000, r |-> Some(6000)],
      [kind |-> "tuple", c |-> 15000, r |-> Some(30000)],
      [kind |-> "tuple", c |-> 15000, r |-> None],
      [kind |-> "tuple", c |-> 0, r |-> Some(0)],
      [kind |-> "scalar", c |-> 2000, r |-> None],
      [kind |-> "none", c |-> 0, r |-> None] }

MaxRetriesArgs == {None} \cup {Some(n) : n \in 0 .. MaxRetriesArg}

\* _resolve_timeout (lines 274-294)
ResolveConnect(timeout) ==
    Max2(MinConnectTimeout,
         IF timeout.kind = "tuple"
         THEN (IF timeout.c # 0 THEN timeout.c ELSE DEFAULT_CONNECT_TIMEOUT)
         ELSE IF timeout.kind = "scalar" /\ timeout.c > 0 THEN timeout.c
         ELSE DEFAULT_CONNECT_TIMEOUT)

ResolveRead(timeout) ==
    IF timeout.kind = "tuple"
    THEN (IF IsNone(timeout.r) THEN None
          ELSE Some(Max2(MinReadTimeout,
                         IF Val(timeout.r) # 0 THEN Val(timeout.r)
                         ELSE DEFAULT_READ_TIMEOUT)))
    ELSE IF timeout.kind = "scalar" /\ timeout.c > 0
    THEN Some(Max2(MinReadTimeout, timeout.c))
    ELSE Some(DEFAULT_READ_TIMEOUT)

\* variant of EffectiveMaxRetries: one attempt too many
EffectiveMaxRetriesOffByOne(mr) ==
    IF ~IsNone(mr) /\ Val(mr) >= 1 THEN Val(mr) + 1 ELSE MAX_RETRIES + 1

\* lines 379-383
EffectiveMaxRetries(mr) ==
    IF ~IsNone(mr) /\ Val(mr) >= 1 THEN Val(mr) ELSE MAX_RETRIES

\* line 395
Elapsed == now - global_start

\* variant of RemainingRead: every attempt gets the whole read timeout
RemainingReadFresh(elapsed) ==
    IF IsNone(read_timeout_global) THEN None ELSE Some(Val(read_timeout_global))

\* lines 397-400: the read timeout of this attempt
RemainingRead(elapsed) ==
    IF IsNone(read_timeout_global) THEN None
    ELSE Some(Val(read_timeout_global) - elapsed)

\* variant of BudgetExhausted: a remaining time of exactly zero is still spent
BudgetExhaustedBelowZero(rem) == ~IsNone(rem) /\ Val(rem) < 0

\* line 401: if remaining_read <= 0 (never with read_timeout_global None)
BudgetExhausted(rem) == ~IsNone(rem) /\ Val(rem) <= 0

\* variant of NextDelay: the backoff doubles
NextDelayDoubles(d) == d * 2

\* line 521: attempt_delay *= 1.5
NextDelay(d) == (d * 3) \div 2

\* requests.Response.__bool__ is Response.ok: true exactly for a status below 400
ResponseTruthy(status) == status < 400

\* line 494: status = exc.response.status_code if exc.response else None
HandlerStatus(status) == IF ResponseTruthy(status) THEN Some(status) ELSE None

\* lines 418-421 and 497: is this status retried at this attempt
RaisedAsRetryable(status) ==
    status \in RETRYABLE_STATUS /\ attempt < effective_max_retries

HandlerRetries(status) ==
    LET st == HandlerStatus(status) IN
    /\ ~IsNone(st)
    /\ Val(st) \in RETRYABLE_STATUS
    /\ attempt < effective_max_retries

\* Response.raise_for_status raises for 400 <= status < 600
RaiseForStatusRaises(status) == status >= 400 /\ status < 600

\* what the network can do to one POST
ReadPhaseKinds == {"read_timeout", "remote_reset", "remote_closed", "broken_pipe"}
ConnectPhaseKinds == {"connect_timeout", "connect_error"}
Statuses == {200, 304, 404, 429, 503}

\* the exception class requests raises for each kind
ExcClass(kind) ==
    IF kind = "connect_timeout" THEN "ConnectTimeout"
    ELSE IF kind = "read_timeout" THEN "ReadTimeout"
    ELSE "ConnectionError"

IsTimeout(kind) == ExcClass(kind) \in {"ConnectTimeout", "ReadTimeout"}
IsConnectionError(kind) == ExcClass(kind) \in {"ConnectTimeout", "ConnectionError"}

\* the exception text holds "remote end closed", "connection reset",
\* "connection aborted", "bad status line" or "broken pipe"
TextHasCloseKeyword(kind) == kind \in {"remote_reset", "remote_closed", "broken_pipe"}

\* variant of RemoteClosed: the close keywords are never recognised
RemoteClosedNever(kind) == FALSE

\* lines 432-441
RemoteClosed(kind) == IsConnectionError(kind) /\ TextHasCloseKeyword(kind)

\* line 442
ExceededConnectBudget(duration) == duration > connect_timeout + ConnectSlack

\* lines 443-447
IsReadTimeout(kind) ==
    IsTimeout(kind) /\ ExcClass(kind) # "ConnectTimeout" /\ ~IsConnectionError(kind)

\* the durations a POST of each kind can take, given the read timeout passed
Durations(kind, rem) ==
    IF kind = "connect_timeout"
    THEN {connect_timeout, connect_timeout + ConnectSlack + 1}
    ELSE IF kind = "connect_error"
    THEN {0, connect_timeout, connect_timeout + ConnectSlack + 1}
    ELSE IF kind = "read_timeout" THEN (IF IsNone(rem) THEN {} ELSE {Val(rem)})
    ELSE IF IsNone(rem) THEN {100, 60000}
    ELSE {Min2(100, Val(rem)), Val(rem)}

CurrentRead == read_passed[Len(read_passed)]

\* ---------------------------------------------------------------- error messages
\* A text is a sequence of blocks of 100 characters; message[:300] keeps three.
SummaryBlocks == 3

Truncate(text) == SubSeq(text, 1, Min2(Len(text), SummaryBlocks))

Range(text) == {text[a] : a \in 1 .. Len(text)}

\* The bodies an upstream can answer an error status with: error is the
\* "message" of the JSON object "error" (<<>>: none), message the top-level
\* "message", text the raw body.
Bodies ==
    { [error |-> <<"request req-1 failed at host-a">>, message |-> <<>>,
       text |-> <<"{error: {message: request req-1 failed at host-a}}">>],
      [error |-> <<"request req-2 failed at host-b">>, message |-> <<>>,
       text |-> <<"{error: {message: request req-2 failed at host-b}}">>],
      [error |-> <<"token quota", "not enough", "cost 0.30">>, message |-> <<>>,
       text |-> <<"{error: {message: token quota not enough cost 0.30}}">>],
      [error |-> <<>>, message |-> <<"billing: plan exhausted">>,
       text |-> <<"{message: billing: plan exhausted}">>],
      [error |-> <<>>, message |-> <<>>,
       text |-> <<"<html>", "gateway host-a", "upstream host-b", "trace 77">>],
      [error |-> <<>>, message |-> <<>>, text |-> <<>>] }

\* the body of a response that is not an error
OkBody == [error |-> <<>>, message |-> <<>>, text |-> <<"{candidates: ...}">>]

\* _summarize_error_response (lines 296-322)
SummarizeErrorResponse(body) ==
    IF body.error # <<>>
    THEN (IF "token quota" \in Range(body.error) /\ "not enough" \in Range(body.error)
          THEN <<"balance insufficient">>
          ELSE Truncate(body.error))
    ELSE IF body.message # <<>> THEN Truncate(body.message)
    ELSE IF body.text # <<>> THEN Truncate(body.text)
    ELSE <<"no response content">>

\* type(last_error).__name__ (line 524)
ErrorLabel(kind) == IF kind = "response" THEN "HTTPError" ELSE ExcClass(kind)

\* The message of the RuntimeError send_request raises (lines 403-405, 456-458,
\* 471, 489-491, 502-504, 515-517, 524-538), without the numbers the caller
\* itself supplies (model name, durations, attempt counts).  A return and the
\* interrupt carry no message.
ErrorMessage(how, kind, status, body) ==
    IF how \in {"ok", "interrupt"} THEN None
    ELSE Some([template |-> how,
               label |-> IF how \in {"exhausted_connect", "exhausted_read", "exhausted"}
                         THEN ErrorLabel(kind)
                         ELSE IF how = "request_exc" THEN "RequestException"
                         ELSE IF how = "bad_json" THEN "JSONDecodeError"
                         ELSE "",
               status |-> IF how = "http" THEN HandlerStatus(status) ELSE None,
               summary |-> IF how = "http" THEN SummarizeErrorResponse(body)
                           ELSE <<>>])

\* ---------------------------------------------------------------- send_request: initial state
SendInit ==
    /\ arg_timeout \in TimeoutArgs
    /\ arg_max_retries \in MaxRetriesArgs
    /\ connect_timeout = 0
    /\ read_timeout_global = None
    /\ effective_max_retries = 0
    /\ attempt = 0
    /\ attempt_delay = 0
    /\ now = 0
    /\ global_start = 0
    /\ start = 0
    /\ posts = 0
    /\ read_passed = <<>>
    /\ post_at = <<>>
    /\ sleeps = <<>>
    /\ last_net = "none"
    /\ last_status = 0
    /\ last_error_phase = "None"
    /\ sr_pc = "call"
    /\ sr_exit = "none"
    /\ int_at = -1
    /\ resp_body = <<>>
    /\ error_text = <<>>

RunIdle ==
    /\ batch_size = 0
    /\ actual_workers = 1
    /\ continue_on_error = TRUE
    /\ worker_fn = "generate_single_image"
    /\ interrupted = FALSE
    /\ jobState = <<>>
    /\ jobOutcome = <<>>
    /\ pending = {}
    /\ done = {}
    /\ results = <<>>
    /\ completed = 0
    /\ should_stop = FALSE
    /\ seq_next = 0
    /\ progress = <<>>
    /\ runPc = "idle"
    /\ returned = <<>>
    /\ sortedResults = <<>>
    /\ prompt_ok = TRUE
    /\ jobPosts = <<>>
    /\ unreported = <<>>

idleRunVars == <<batch_size, actual_workers, continue_on_error, worker_fn, jobState,
                 jobOutcome, pending, done, results, completed, should_stop, seq_next,
                 progress, runPc, returned, sortedResults, prompt_ok, jobPosts,
                 unreported>>

\* the call ends: a return or a raise
SendExit(how, kind, status, body) ==
    /\ sr_pc' = "done"
    /\ sr_exit' = how
    /\ error_text' = ErrorMessage(how, kind, status, body)

\* ---------------------------------------------------------------- send_request: actions
\* the user cancels the prompt while the call is under way
SendInterrupt ==
    /\ sr_pc \in {"call", "top", "posting", "sleep"}
    /\ ~interrupted
    /\ interrupted' = TRUE
    /\ int_at' = now
    /\ UNCHANGED <<idleRunVars, postVars, codecVars>>
    /\ UNCHANGED <<arg_timeout, arg_max_retries, connect_timeout, read_timeout_global,
                   effective_max_retries, attempt, attempt_delay, now, global_start,
                   start, posts, read_passed, post_at, sleeps, last_net, last_status,
                   last_error_phase, sr_pc, sr_exit, resp_body, error_text>>

\* lines 360-390: the arguments are resolved, the clock is read
SendEnter ==
    /\ sr_pc = "call"
    /\ connect_timeout' = ResolveConnect(arg_timeout)
    /\ read_timeout_global' = ResolveRead(arg_timeout)
    /\ effective_max_retries' = EffectiveMaxRetries(arg_max_retries)
    /\ global_start' = now
    /\ attempt_delay' = BASE_BACKOFF
    /\ attempt' = 1
    /\ sr_pc' = "top"
    /\ UNCHANGED <<idleRunVars, postVars, codecVars>>
    /\ UNCHANGED <<interrupted, arg_timeout, arg_max_retries, now, start, posts,
                   read_passed, post_at, sleeps, last_net, last_status,
                   last_error_phase, sr_exit, int_at, resp_body, error_text>>

\* lines 392-417: the head of the loop: the interrupt check, the remaining
\* read time and the POST
AttemptTop ==
    /\ sr_pc = "top"
    /\ UNCHANGED <<idleRunVars, postVars, codecVars>>
    /\ UNCHANGED <<interrupted, arg_timeout, arg_max_retries, connect_timeout,
                   read_timeout_global, effective_max_retries, attempt, attempt_delay,
                   now, global_start, sleeps, last_net, last_status, last_error_phase,
                   int_at, resp_body>>
    /\ IF ClientCheckRaises
       THEN /\ SendExit("interrupt", last_net, last_status, resp_body)
            /\ UNCHANGED <<start, posts, read_passed, post_at>>
       ELSE LET rem == RemainingRead(Elapsed) IN
            IF BudgetExhausted(rem)
            THEN /\ SendExit("budget", last_net, last_status, resp_body)
                 /\ UNCHANGED <<start, posts, read_passed, post_at>>
            ELSE /\ start' = now
                 /\ posts' = posts + 1
                 /\ read_passed' = Append(read_passed, rem)
                 /\ post_at' = Append(post_at, now)
                 /\ sr_pc' = "posting"
                 /\ UNCHANGED <<sr_exit, error_text>>

\* lines 519-538 after a failure that is retried: the sleep when attempts
\* remain; after the last attempt the loop ends and the call raises
AfterRetryableFailure(phase, kind, status, body) ==
    IF attempt < effective_max_retries
    THEN /\ sr_pc' = "sleep"
         /\ UNCHANGED <<attempt, sr_exit, error_text>>
    ELSE /\ SendExit(IF phase = "connect" THEN "exhausted_connect"
                     ELSE IF phase = "read" THEN "exhausted_read"
                     ELSE "exhausted",
                     kind, status, body)
         /\ UNCHANGED attempt

\* _interruptible_post raises the interrupt (lines 229-239)
PostCancelled ==
    /\ sr_pc = "posting"
    /\ interrupted
    /\ \E d \in {0, PollInterval} : now' = now + d
    /\ SendExit("interrupt", last_net, last_status, resp_body)
    /\ UNCHANGED <<idleRunVars, postVars, codecVars>>
    /\ UNCHANGED <<interrupted, arg_timeout, arg_max_retries, connect_timeout,
                   read_timeout_global, effective_max_retries, attempt, attempt_delay,
                   global_start, start, posts, read_passed, post_at, sleeps, last_net,
                   last_status, last_error_phase, int_at, resp_body>>

\* lines 418-426 and 492-504: the POST returns a response
PostResponse ==
    /\ sr_pc = "posting"
    /\ ~interrupted
    /\ \E status \in Statuses, d \in Durations("response", CurrentRead), json_ok \in BOOLEAN :
       \E body \in (IF status >= 400 THEN Bodies ELSE {OkBody}) :
         /\ now' = now + d
         /\ last_net' = "response"
         /\ last_status' = status
         /\ resp_body' = body
         /\ IF RaisedAsRetryable(status) \/ RaiseForStatusRaises(status)
            THEN \* except requests.HTTPError
                 IF HandlerRetries(status)
                 THEN AfterRetryableFailure(last_error_phase, "response", status, body)
                 ELSE /\ SendExit("http", "response", status, body)
                      /\ UNCHANGED attempt
            ELSE \* return response.json()
                 /\ SendExit(IF json_ok THEN "ok" ELSE "bad_json", "response", status,
                             body)
                 /\ UNCHANGED attempt
    /\ UNCHANGED <<idleRunVars, postVars, codecVars>>
    /\ UNCHANGED <<interrupted, arg_timeout, arg_max_retries, connect_timeout,
                   read_timeout_global, effective_max_retries, attempt_delay,
                   global_start, start, posts, read_passed, post_at, sleeps,
                   last_error_phase, int_at>>

\* lines 427-491: the POST raises requests.Timeout or requests.ConnectionError
PostTransportError ==
    /\ sr_pc = "posting"
    /\ ~interrupted
    /\ \E kind \in ConnectPhaseKinds \cup ReadPhaseKinds :
       \E d \in Durations(kind, CurrentRead) :
         /\ now' = now + d
         /\ last_net' = kind
         /\ IF IsReadTimeout(kind)
            THEN /\ last_error_phase' = "read"
                 /\ SendExit("read_timeout", kind, last_status, resp_body)
                 /\ UNCHANGED attempt
            ELSE IF RemoteClosed(kind) \/ ExceededConnectBudget(d)
            THEN /\ last_error_phase' = "read"
                 /\ SendExit("remote_closed", kind, last_status, resp_body)
                 /\ UNCHANGED attempt
            ELSE \* ConnectTimeout or ConnectionError: the connect phase
                 /\ last_error_phase' = "connect"
                 /\ AfterRetryableFailure("connect", kind, last_status, resp_body)
    /\ UNCHANGED <<idleRunVars, postVars, codecVars>>
    /\ UNCHANGED <<interrupted, arg_timeout, arg_max_retries, connect_timeout,
                   read_timeout_global, effective_max_retries, attempt_delay,
                   global_start, start, posts, read_passed, post_at, sleeps,
                   last_status, int_at, resp_body>>

\* lines 505-517: the POST raises another requests.RequestException
PostOtherException ==
    /\ sr_pc = "posting"
    /\ ~interrupted
    /\ \E d \in Durations("other", CurrentRead) : now' = now + d
    /\ last_net' = "other_exception"
    /\ SendExit("request_exc", "other_exception", last_status, resp_body)
    /\ UNCHANGED <<idleRunVars, postVars, codecVars>>
    /\ UNCHANGED <<interrupted, arg_timeout, arg_max_retries, connect_timeout,
                   read_timeout_global, effective_max_retries, attempt, attempt_delay,
                   global_start, start, posts, read_passed, post_at, sleeps,
                   last_status, last_error_phase, int_at, resp_body>>

\* lines 520-521: time.sleep(attempt_delay) runs its full length, then the
\* backoff grows and the loop goes on
SleepEnds ==
    /\ sr_pc = "sleep"
    /\ now' = now + attempt_delay
    /\ sleeps' = Append(sleeps, <<attempt, attempt_delay>>)
    /\ attempt_delay' = NextDelay(attempt_delay)
    /\ attempt' = attempt + 1
    /\ sr_pc' = "top"
    /\ UNCHANGED <<idleRunVars, postVars, codecVars>>
    /\ UNCHANGED <<interrupted, arg_timeout, arg_max_retries, connect_timeout,
                   read_timeout_global, effective_max_retries, global_start, start,
                   posts, read_passed, post_at, last_net, last_status,
                   last_error_phase, sr_exit, int_at, resp_body, error_text>>

SendNext ==
    \/ SendInterrupt
    \/ SendEnter
    \/ AttemptTop
    \/ PostCancelled
    \/ PostResponse
    \/ PostTransportError
    \/ PostOtherException
    \/ SleepEnds

InitSend == RunIdle /\ SendInit /\ PostIdle /\ CodecIdle

SpecSend == InitSend /\ [][SendNext]_vars

\* ================================================================ _interruptible_post
\* the clock of this part advances in steps of a fifth of the poll interval
PostTick == PollInterval \div 5
\* the clock stops here
PostHorizon == 7000

\* the (connect, read) timeouts of the model
PostTimeouts ==
    { [c |-> 1000, r |-> Some(5000)],
      [c |-> 15000, r |-> None] }

\* session.post gives up by itself once connect + read have run out
PastNetDeadline ==
    ~IsNone(p_timeout.r) /\ p_now >= p_timeout.c + Val(p_timeout.r)

\* the calls one worker thread makes in the model
MaxPostCalls == 2

\* variant of NetOutcome: whatever the request thread ended with is returned
NetOutcomeAlwaysReturns(net) == "returned"

\* lines 241-248: the exception of the request thread is raised again, its
\* response returned
NetOutcome(net) == IF net = "response" THEN "returned" ELSE "raised"

\* variant of SlotAfterCancel: the closed session stays in the slot
SlotAfterCancelKept == "session"

\* line 238: setattr(self._thread_local, attr_name, None)
SlotAfterCancel == "None"

\* variant of WaitTimedOut: the wait lasts the whole request timeout
WaitTimedOutAfterFullTimeout ==
    ~IsNone(p_timeout.r) /\ p_now >= p_wait_start + p_timeout.c + Val(p_timeout.r)

\* done_event.wait(timeout=poll_interval) returns False: the poll interval ran out
WaitTimedOut == p_now >= p_wait_start + PollInterval

PostInit ==
    /\ p_timeout \in PostTimeouts
    /\ p_now = 0
    /\ p_wait_start = 0
    /\ p_done_event = FALSE
    /\ p_net = "none"
    /\ p_int_at = -1
    /\ p_session_closed = FALSE
    /\ p_thread_local = "session"
    /\ p_pc = "call"
    /\ p_first = "none"
    /\ p_session = 1
    /\ p_calls = 1

\* lines 206-230: the request thread is started, the first wait begins
PostStart ==
    /\ p_pc = "call"
    /\ p_pc' = "waiting"
    /\ p_wait_start' = p_now
    /\ UNCHANGED <<idleRunVars, sendVars, codecVars, interrupted>>
    /\ UNCHANGED <<p_timeout, p_now, p_done_event, p_net, p_int_at, p_session_closed,
                   p_thread_local, p_first, p_session, p_calls>>

\* time passes while the caller is blocked in done_event.wait
PostTime ==
    /\ p_pc = "waiting"
    /\ ~p_done_event
    /\ ~WaitTimedOut
    /\ ~PastNetDeadline
    /\ p_now < PostHorizon
    /\ p_now' = p_now + PostTick
    /\ UNCHANGED <<idleRunVars, sendVars, codecVars, interrupted>>
    /\ UNCHANGED <<p_timeout, p_wait_start, p_done_event, p_net, p_int_at,
                   p_session_closed, p_thread_local, p_pc, p_first, p_session, p_calls>>

\* lines 210-222: session.post returns or raises in the request thread
NetComplete ==
    /\ p_pc = "waiting"
    /\ ~p_done_event
    /\ \E k \in {"response", "exception", "timeout"} :
         /\ k = "timeout" <=> PastNetDeadline
         /\ p_net' = k
    /\ p_done_event' = TRUE
    /\ p_first' = (IF p_first = "none" THEN "net" ELSE p_first)
    /\ UNCHANGED <<idleRunVars, sendVars, codecVars, interrupted>>
    /\ UNCHANGED <<p_timeout, p_now, p_wait_start, p_int_at, p_session_closed,
                   p_thread_local, p_pc, p_session, p_calls>>

\* the user cancels the prompt while the caller is blocked
PostInterrupt ==
    /\ p_pc = "waiting"
    /\ ~interrupted
    /\ interrupted' = TRUE
    /\ p_int_at' = p_now
    /\ p_first' = (IF p_first = "none" THEN "interrupt" ELSE p_first)
    /\ UNCHANGED <<idleRunVars, sendVars, codecVars>>
    /\ UNCHANGED <<p_timeout, p_now, p_wait_start, p_done_event, p_net,
                   p_session_closed, p_thread_local, p_pc, p_session, p_calls>>

\* lines 229-248: done_event.wait returns (the event is set or the poll
\* interval ran out), the interrupt is checked; then the next wait, the
\* cancellation (session closed, thread-local slot cleared) or the result
PollWake ==
    /\ p_pc = "waiting"
    /\ p_done_event \/ WaitTimedOut
    /\ IF interrupted
       THEN /\ p_session_closed' = TRUE
            /\ p_thread_local' = SlotAfterCancel
            /\ p_pc' = "cancelled"
            /\ UNCHANGED p_wait_start
       ELSE IF p_done_event
       THEN /\ p_pc' = NetOutcome(p_net)
            /\ UNCHANGED <<p_wait_start, p_session_closed, p_thread_local>>
       ELSE /\ p_wait_start' = p_now
            /\ UNCHANGED <<p_pc, p_session_closed, p_thread_local>>
    /\ UNCHANGED <<idleRunVars, sendVars, codecVars, interrupted>>
    /\ UNCHANGED <<p_timeout, p_now, p_done_event, p_net, p_int_at, p_first, p_session,
                   p_calls>>

\* A later send_request on the same worker thread, for a later prompt (the
\* interrupt flag is down again): _get_session (lines 165-177) returns the
\* session of the thread-local slot or, the slot being None, a new one; then
\* _interruptible_post is called with it.  The clock starts again at 0.
PostNextCall ==
    /\ p_pc \in {"returned", "raised", "cancelled"}
    /\ p_calls < MaxPostCalls
    /\ p_calls' = p_calls + 1
    /\ IF p_thread_local = "None"
       THEN /\ p_session' = p_session + 1
            /\ p_session_closed' = FALSE
            /\ p_thread_local' = "session"
       ELSE UNCHANGED <<p_session, p_session_closed, p_thread_local>>
    /\ interrupted' = FALSE
    /\ p_int_at' = -1
    /\ p_now' = 0
    /\ p_wait_start' = 0
    /\ p_done_event' = FALSE
    /\ p_net' = "none"
    /\ p_first' = "none"
    /\ p_pc' = "call"
    /\ UNCHANGED <<idleRunVars, sendVars, codecVars, p_timeout>>

PostNext ==
    \/ PostStart
    \/ PostTime
    \/ NetComplete
    \/ PostInterrupt
    \/ PollWake
    \/ PostNextCall

InitPost == RunIdle /\ SendIdle /\ PostInit /\ CodecIdle

SpecPost == InitPost /\ [][PostNext]_vars

\* ================================================================ base64_to_tensor_parallel
\* the longest payload list of the model
MaxPayloads == 3
\* the largest max_workers argument of the model
MaxDecodeWorkers == 2

\* np.zeros((64, 64, 3)): the side of the blank image
PlaceholderSide == 64
\* max(4, os.cpu_count() or 1), on a machine of at most four processors
DefaultWorkerCap == 4

\* A payload is the base64 text of an encoded picture, or text that does not
\* decode.  A picture is its pixels and the side of its (square) array.
Pictures == { [pix |-> "a", side |-> 64], [pix |-> "b", side |-> 128] }

PayloadValues ==
    { [valid |-> TRUE, picture |-> pic] : pic \in Pictures }
        \cup { [valid |-> FALSE, picture |-> [pix |-> "garbage", side |-> 0]] }

PayloadLists ==
    UNION { [1 .. n -> PayloadValues] : n \in 0 .. MaxPayloads }

Placeholder == [pix |-> "zeros", side |-> PlaceholderSide]

\* base64_to_tensor_single (lines 138-146)
Base64ToTensorSingle(b64) == IF b64.valid THEN b64.picture ELSE Placeholder

\* lines 159-161
EffectiveWorkers(max_workers, n) ==
    Min2(Max2(1, IF IsNone(max_workers) THEN DefaultWorkerCap ELSE Val(max_workers)), n)

\* np.stack (line 197) raises ValueError unless every array has the same shape
StackRaises(images) ==
    \E a, b \in 1 .. Len(images) : images[a].side # images[b].side

\* line 184: images = [r for r in results if r is not None]
RECURSIVE NotNone(_)
NotNone(res) ==
    IF Len(res) = 0 THEN <<>>
    ELSE (IF IsNone(Head(res)) THEN <<>> ELSE <<Val(Head(res))>>) \o NotNone(Tail(res))

DRunning == {i \in DOMAIN d_state : d_state[i] = "running"}
DQueued == {i \in DOMAIN d_state : d_state[i] = "queued"}

DecodeInit ==
    /\ d_payloads \in PayloadLists
    /\ d_workers = 0
    /\ d_state = [i \in DOMAIN d_payloads |-> "new"]
    /\ d_decoded = [i \in DOMAIN d_payloads |-> None]
    /\ d_results = [i \in DOMAIN d_payloads |-> None]
    /\ d_out = <<>>
    /\ d_pc = "call"

\* the user cancels the prompt while the call is under way
DecodeInterrupt ==
    /\ d_pc \in {"call", "collect"}
    /\ ~interrupted
    /\ interrupted' = TRUE
    /\ UNCHANGED <<idleRunVars, sendVars, postVars, decVars, cacheVars>>

\* lines 154-167: the empty list, the interrupt check, the pool and the submits
DecodeBegin ==
    /\ d_pc = "call"
    /\ UNCHANGED <<idleRunVars, sendVars, postVars, cacheVars, interrupted>>
    /\ UNCHANGED <<d_payloads, d_decoded, d_results>>
    /\ IF Len(d_payloads) = 0
       THEN \* torch.zeros((1, 64, 64, 3))
            /\ d_out' = <<Placeholder>>
            /\ d_pc' = "returned"
            /\ UNCHANGED <<d_workers, d_state>>
       ELSE IF NodeCheckRaises
       THEN /\ d_pc' = "raised"
            /\ UNCHANGED <<d_workers, d_state, d_out>>
       ELSE \E mw \in {None} \cup {Some(w) : w \in 0 .. MaxDecodeWorkers} :
            /\ d_workers' = EffectiveWorkers(mw, Len(d_payloads))
            /\ d_state' = [i \in DOMAIN d_payloads |-> "queued"]
            /\ d_pc' = "collect"
            /\ UNCHANGED d_out

\* a pool thread takes the next work item of the queue
DecodeWorkerStart ==
    /\ d_pc = "collect"
    /\ DQueued # {}
    /\ Cardinality(DRunning) < d_workers
    /\ d_state' = [d_state EXCEPT ![Min(DQueued)] = "running"]
    /\ UNCHANGED <<idleRunVars, sendVars, postVars, cacheVars, interrupted>>
    /\ UNCHANGED <<d_payloads, d_workers, d_decoded, d_results, d_out, d_pc>>

\* base64_to_tensor_single returns in its pool thread
DecodeWorkerFinish(i) ==
    /\ i \in DOMAIN d_state
    /\ d_state[i] = "running"
    /\ d_state' = [d_state EXCEPT ![i] = "finished"]
    /\ d_decoded' = [d_decoded EXCEPT ![i] = Some(Base64ToTensorSingle(d_payloads[i]))]
    /\ UNCHANGED <<idleRunVars, sendVars, postVars, cacheVars, interrupted>>
    /\ UNCHANGED <<d_payloads, d_workers, d_results, d_out, d_pc>>

\* lines 171-197: as_completed yields a finished future; the interrupt check,
\* results[index] = future.result(); after the last future the list is stacked
DecodeCollect(i) ==
    /\ d_pc = "collect"
    /\ i \in DOMAIN d_state
    /\ d_state[i] = "finished"
    /\ UNCHANGED <<idleRunVars, sendVars, postVars, cacheVars, interrupted>>
    /\ UNCHANGED <<d_payloads, d_workers, d_decoded>>
    /\ IF NodeCheckRaises
       THEN \* lines 176-179 and 185-187
            /\ d_state' = CancelQueued(d_state)
            /\ d_pc' = "raised"
            /\ UNCHANGED <<d_results, d_out>>
       ELSE LET res == [d_results EXCEPT ![i] = d_decoded[i]]
                st == [d_state EXCEPT ![i] = "collected"]
                images == NotNone(res)
            IN
            /\ d_results' = res
            /\ d_state' = st
            /\ IF \E k \in DOMAIN st : st[k] # "collected"
               THEN UNCHANGED <<d_out, d_pc>>
               ELSE IF StackRaises(images)
               THEN /\ d_pc' = "raised_error"
                    /\ UNCHANGED d_out
               ELSE /\ d_out' = images
                    /\ d_pc' = "returned"

DecodeNext ==
    \/ DecodeInterrupt
    \/ DecodeBegin
    \/ DecodeWorkerStart
    \/ \E i \in 1 .. MaxPayloads : DecodeWorkerFinish(i)
    \/ \E i \in 1 .. MaxPayloads : DecodeCollect(i)

InitDecode == RunIdle /\ SendIdle /\ PostIdle /\ DecodeInit /\ CacheIdle

SpecDecode == InitDecode /\ [][DecodeNext]_vars

\* ================================================================ prepare_input_images
\* the largest cache of the model
MaxCacheSize == 2
\* the number of prepare_input_images calls of the model
MaxCacheCalls == 4

\* An input image is the bytes of its array and the shape of the array.
InputImages == [bytes : {"x", "y", "z"}, shape : {"2x4x3", "4x2x3"}]

\* _tensor_cache_key (lines 45-58): the SHA-1 of target.tobytes()
TensorCacheKey(image) == <<"sha1", image.bytes>>

\* tensor_to_base64 (lines 100-118): the PNG of the array, its shape included
TensorToBase64(image) == <<"png", image.shape, image.bytes>>

CacheKeys == {TensorCacheKey(image) : image \in InputImages}

KeysOf(c) == {c[a].key : a \in 1 .. Len(c)}

ValueOf(c, key) == (CHOOSE e \in Range(c) : e.key = key).value

\* variant of MoveToEnd: a hit leaves the entry where it is
MoveToEndStays(c, key) == c

\* OrderedDict.move_to_end(key) (lines 66 and 74)
MoveToEnd(c, key) ==
    SelectSeq(c, LAMBDA e : e.key # key) \o SelectSeq(c, LAMBDA e : e.key = key)

\* variant of Evict: nothing is ever popped
EvictNothing(c) == c

\* lines 75-76: popitem(last=False) while the cache is larger than _cache_size
RECURSIVE Evict(_)
Evict(c) == IF Len(c) > cache_size THEN Evict(Tail(c)) ELSE c

\* _set_cached_image_b64 (lines 69-76)
SetCached(c, key, value) ==
    LET put == IF key \in KeysOf(c)
               THEN [a \in 1 .. Len(c) |->
                        IF c[a].key = key THEN [key |-> key, value |-> value] ELSE c[a]]
               ELSE Append(c, [key |-> key, value |-> value])
    IN Evict(MoveToEnd(put, key))

\* the keys of c that are no longer in d, oldest first
Dropped(c, d) == SelectSeq([a \in 1 .. Len(c) |-> c[a].key], LAMBDA k : k \notin KeysOf(d))

CacheInit ==
    /\ cache_size \in 1 .. MaxCacheSize
    /\ image_cache = <<>>
    /\ c_image = <<>>
    /\ c_encoded = <<>>
    /\ c_hit = FALSE
    /\ c_evicted = <<>>
    /\ c_clock = 0
    /\ c_last_use = [k \in CacheKeys |-> 0]
    /\ c_pc = "ready"
    /\ ConcIdle

\* prepare_input_images (lines 120-136) for a list of one image of one sample
PrepareInputImages(image) ==
    /\ c_pc = "ready"
    /\ c_clock < MaxCacheCalls
    /\ UNCHANGED <<idleRunVars, sendVars, postVars, decVars, interrupted>>
    /\ UNCHANGED <<cache_size, c_pc, concVars>>
    /\ LET cache_key == TensorCacheKey(image)
           hit == cache_key \in KeysOf(image_cache)
       IN
       /\ c_image' = image
       /\ c_hit' = hit
       /\ c_clock' = c_clock + 1
       /\ c_last_use' = [c_last_use EXCEPT ![cache_key] = c_clock + 1]
       /\ IF hit
          THEN \* _get_cached_image_b64 (lines 60-67)
               /\ c_encoded' = ValueOf(image_cache, cache_key)
               /\ image_cache' = MoveToEnd(image_cache, cache_key)
               /\ c_evicted' = <<>>
          ELSE LET base64_value == TensorToBase64(image)
                   c == SetCached(image_cache, cache_key, base64_value)
               IN
               /\ c_encoded' = base64_value
               /\ image_cache' = c
               /\ c_evicted' = Dropped(image_cache, c)

CacheNext == \E image \in InputImages : PrepareInputImages(image)

InitCache == RunIdle /\ SendIdle /\ PostIdle /\ DecodeIdle /\ CacheInit

SpecCache == InitCache /\ [][CacheNext]_vars

\* ================================================================ threads sharing one ImageCodec
\* the threads of the model that call prepare_input_images on one codec
MaxCacheThreads == 2

CacheThreads == 1 .. MaxCacheThreads

NoImage == [bytes |-> "", shape |-> ""]

\* ImageCodec.__init__, line 39: self._cache_size = max(1, cache_size)
CacheCapacity(arg) == Max2(1, arg)

\* variant of LockAfterLookup: a miss keeps the lock until the insert
LockAfterLookupHeldOnMiss(t, hit) == IF hit THEN 0 ELSE t

\* lines 63-67: the with block ends and releases _cache_lock, hit or miss
LockAfterLookup(t, hit) == 0

ConcInit ==
    /\ cache_size \in {CacheCapacity(arg) : arg \in 0 .. MaxCacheSize}
    /\ image_cache = <<>>
    /\ c_image = <<>>
    /\ c_encoded = <<>>
    /\ c_hit = FALSE
    /\ c_evicted = <<>>
    /\ c_clock = 0
    /\ c_last_use = <<>>
    /\ c_pc = "threads"
    /\ cache_lock = 0
    /\ k_pc = [t \in CacheThreads |-> "idle"]
    /\ k_image = [t \in CacheThreads |-> NoImage]
    /\ k_value = [t \in CacheThreads |-> None]
    /\ k_calls = 0

\* what no step of a thread changes
ConcFrame ==
    UNCHANGED <<idleRunVars, sendVars, postVars, decVars, interrupted, cache_size,
                c_image, c_encoded, c_hit, c_evicted, c_clock, c_last_use, c_pc>>

\* lines 124-129: the thread takes a sample, computes its key and calls
\* _get_cached_image_b64, which has to take the lock
PrepareCall(t, image) ==
    /\ c_pc = "threads"
    /\ k_pc[t] = "idle"
    /\ k_calls < MaxCacheCalls
    /\ k_calls' = k_calls + 1
    /\ k_image' = [k_image EXCEPT ![t] = image]
    /\ k_value' = [k_value EXCEPT ![t] = None]
    /\ k_pc' = [k_pc EXCEPT ![t] = "get_wait"]
    /\ UNCHANGED <<image_cache, cache_lock>>
    /\ ConcFrame

\* line 63: with self._cache_lock, entered when the lock is free
GetAcquire(t) ==
    /\ k_pc[t] = "get_wait"
    /\ cache_lock = 0
    /\ cache_lock' = t
    /\ k_pc' = [k_pc EXCEPT ![t] = "get"]
    /\ UNCHANGED <<image_cache, k_image, k_value, k_calls>>
    /\ ConcFrame

\* lines 64-67 and 130-135: the lookup under the lock; a hit is moved to the
\* end and returned to the caller, a miss sends the thread to encode
GetCached(t) ==
    /\ k_pc[t] = "get"
    /\ LET cache_key == TensorCacheKey(k_image[t])
           hit == cache_key \in KeysOf(image_cache)
       IN
       /\ image_cache' = (IF hit THEN MoveToEnd(image_cache, cache_key) ELSE image_cache)
       /\ k_value' = [k_value EXCEPT
                        ![t] = IF hit THEN Some(ValueOf(image_cache, cache_key)) ELSE None]
       /\ k_pc' = [k_pc EXCEPT ![t] = IF hit THEN "idle" ELSE "encode"]
       /\ cache_lock' = LockAfterLookup(t, hit)
    /\ UNCHANGED <<k_image, k_calls>>
    /\ ConcFrame

\* line 131: base64_value = self.tensor_to_base64(np_image=sample)
Encode(t) ==
    /\ k_pc[t] = "encode"
    /\ k_value' = [k_value EXCEPT ![t] = Some(TensorToBase64(k_image[t]))]
    /\ k_pc' = [k_pc EXCEPT ![t] = "set_wait"]
    /\ UNCHANGED <<image_cache, cache_lock, k_image, k_calls>>
    /\ ConcFrame

\* line 72: with self._cache_lock, entered when the lock is free
SetAcquire(t) ==
    /\ k_pc[t] = "set_wait"
    /\ cache_lock = 0
    /\ cache_lock' = t
    /\ k_pc' = [k_pc EXCEPT ![t] = "set"]
    /\ UNCHANGED <<image_cache, k_image, k_value, k_calls>>
    /\ ConcFrame

\* lines 73-76: insert, move to the end, evict; the with block releases the lock
SetCachedLocked(t) ==
    /\ k_pc[t] = "set"
    /\ image_cache' = SetCached(image_cache, TensorCacheKey(k_image[t]), Val(k_value[t]))
    /\ cache_lock' = 0
    /\ k_pc' = [k_pc EXCEPT ![t] = "idle"]
    /\ UNCHANGED <<k_image, k_value, k_calls>>
    /\ ConcFrame

ConcNext ==
    \/ \E t \in CacheThreads, image \in InputImages : PrepareCall(t, image)
    \/ \E t \in CacheThreads : GetAcquire(t)
    \/ \E t \in CacheThreads : GetCached(t)
    \/ \E t \in CacheThreads : Encode(t)
    \/ \E t \in CacheThreads : SetAcquire(t)
    \/ \E t \in CacheThreads : SetCachedLocked(t)

InitCacheConc == RunIdle /\ SendIdle /\ PostIdle /\ DecodeIdle /\ ConcInit

SpecCacheConc == InitCacheConc /\ [][ConcNext]_vars

\* ---------------------------------------------------------------- claims on _interruptible_post
\* C8: once the interrupt has been raised while the caller is blocked in the
\* network call, the call is never still blocked later than one poll interval
\* (250 ms) plus one tick after the interrupt, and it ends only with the
\* cancellation, whatever the connect and read timeouts.
C8_CancelWithinPollInterval ==
    interrupted
    => /\ p_pc \in {"waiting", "cancelled"}
       /\ p_now - p_int_at <= 250 + PostTick

C8_Witness ==
    /\ p_pc = "cancelled"
    /\ ~p_done_event
    /\ p_now - p_int_at = 250
    /\ IsNone(p_timeout.r)
    /\ p_now > 1000

\* ---------------------------------------------------------------- claims on send_request
\* C3: once a POST has failed in the read phase (read timeout, remote reset or
\* close, broken pipe) the call is over and issues no further POST, however
\* many attempts remain.
C3_NoRetryAfterReadPhaseFailure ==
    [][last_net' \in ReadPhaseKinds => (sr_pc' = "done" /\ posts' = posts)]_vars

C3_Witness ==
    /\ sr_pc = "done"
    /\ last_net \in {"remote_reset", "remote_closed", "broken_pipe"}
    /\ posts = 2
    /\ effective_max_retries = MaxRetriesArg
    /\ now - start <= connect_timeout

\* C4: after a POST that received a response with a non-2xx status, the call
\* goes on to a further attempt if and only if the status is in the retryable
\* set and fewer than the maximum number of attempts have been made.
C4_RetryIffRetryableStatus ==
    [][(/\ sr_pc = "posting"
        /\ ~interrupted
        /\ last_net' = "response"
        /\ last_status' \notin 200 .. 299)
       => ((sr_pc' # "done")
             <=> (last_status' \in RETRYABLE_STATUS /\ attempt < effective_max_retries))]_vars

\* C5: the number of POSTs of a call never exceeds max_retries when it is an
\* integer >= 1, and never exceeds 2 otherwise.
C5_PostsWithinMaxAttempts ==
    posts <= (IF ~IsNone(arg_max_retries) /\ Val(arg_max_retries) >= 1
              THEN Val(arg_max_retries) ELSE 2)

C5_Witness ==
    /\ sr_pc = "done"
    /\ sr_exit = "exhausted_connect"
    /\ arg_max_retries = Some(MaxRetriesArg)
    /\ posts = MaxRetriesArg

\* C6: a call with a finite read timeout that met only retryable failures
\* ends no later than connect_timeout x (POSTs made) + read timeout after its
\* first attempt started, backoff sleeps included.
C6_ElapsedWithinBudget ==
    (/\ sr_pc = "done"
     /\ ~IsNone(read_timeout_global)
     /\ sr_exit \in {"ok", "budget", "exhausted_connect"})
    => now - global_start <= connect_timeout * posts + Val(read_timeout_global)

\* C7: with a finite read timeout R, the read timeout handed to attempt k >= 2
\* is R minus the time elapsed since the first attempt started, and is never
\* larger than the one handed to attempt k-1.
C7_ReadBudgetShrinks ==
    ~IsNone(read_timeout_global)
    => \A k \in 2 .. Len(read_passed) :
          /\ Val(read_passed[k]) = Val(read_timeout_global) - (post_at[k] - post_at[1])
          /\ Val(read_passed[k]) <= Val(read_passed[k - 1])

C7_Witness ==
    /\ ~IsNone(read_timeout_global)
    /\ Len(read_passed) >= 3
    /\ Val(read_passed[2]) < Val(read_passed[1])
    /\ Val(read_passed[3]) < Val(read_passed[2])
    /\ Val(read_passed[3]) < BASE_BACKOFF

\* ---------------------------------------------------------------- claims on the runner
MainStep == runPc' # runPc \/ done' # done

IndicesOf(s) == {s[a].index : a \in 1 .. Len(s)}

\* C1: with continue_on_error=true, the worker generate_single_image and no
\* interrupt raised, run over N >= 1 tasks returns exactly N results whose
\* indices are pairwise distinct and lie in [0, N).
C1_Completeness ==
    (/\ runPc = "returned"
     /\ batch_size >= 1
     /\ continue_on_error
     /\ ~interrupted
     /\ worker_fn = "generate_single_image")
    => /\ Len(returned) = batch_size
       /\ \A a \in 1 .. Len(returned) : returned[a].index \in 0 .. (batch_size - 1)
       /\ \A a, b \in 1 .. Len(returned) :
             a # b => returned[a].index # returned[b].index

C1_Witness ==
    /\ runPc = "returned"
    /\ IsParallel
    /\ batch_size = MaxBatch
    /\ continue_on_error
    /\ ~interrupted
    /\ worker_fn = "generate_single_image"
    /\ Len(returned) = batch_size
    /\ \E a \in 1 .. Len(returned) : ~returned[a].success
    /\ IndicesOf(returned) = Jobs

C9_PartialResultsReturned ==
    runPc = "raised" => returned = SortByIndex(results)

\* C9 (amended): a step of run that checks the interrupt while it is raised
\* (the check of run, of the parallel result loop or of the sequential loop)
\* ends run by raising the interrupt exception: no list is returned, the
\* results collected so far are discarded, and no job is left queued.
C9_InterruptRaisesOutOfRun ==
    [][(/\ interrupted
        /\ batch_size >= 1
        /\ runPc \in {"start", "process", "seq"}
        /\ MainStep)
       => (/\ runPc' = "raised"
           /\ returned' = <<>>
           /\ results' = results
           /\ \A j \in Jobs : jobState'[j] # "queued")]_vars

C9_Witness ==
    /\ runPc = "raised"
    /\ interrupted
    /\ Len(results) >= 1
    /\ returned = <<>>
    /\ \E j \in Jobs : jobState[j] = "cancelled"

NotBegun == {"new", "queued", "cancelled"}

FailedResultExists ==
    \E j \in Jobs : jobState[j] = "finished" /\ jobOutcome[j] = "fail"

\* C10 (as stated): with continue_on_error=false, from the moment a job has
\* ended with an unsuccessful result, no job that has not begun executing
\* begins executing.
C10_NoStartAfterFailure ==
    [][(~continue_on_error /\ FailedResultExists)
       => \A k \in Jobs : jobState[k] \in NotBegun => jobState'[k] \in NotBegun]_vars

\* C10 (amended): with continue_on_error=false, when run processes an
\* unsuccessful result it returns, every job still queued at that step is
\* cancelled, and from then on no job that has not begun begins executing; a
\* job queued when the failure happened may begin before run processes it.
C10_NoStartAfterStop ==
    [][(~continue_on_error /\ runPc' = "returned")
       => \A k \in Jobs :
            jobState[k] \in NotBegun => jobState'[k] \in {"new", "cancelled"}]_vars

C10_Witness ==
    /\ ~continue_on_error
    /\ runPc = "returned"
    /\ should_stop
    /\ \E k \in Jobs : jobState[k] = "cancelled"
    /\ \E a \in 1 .. Len(returned) : ~returned[a].success

\* ---------------------------------------------------------------- claims on the decode pool
\* C11: a call of base64_to_tensor_parallel on a non-empty list of which some
\* payloads fail to decode, if it is not interrupted, returns one image per
\* payload: the placeholder at each failing index and the decoded picture at
\* every other index, whatever the sizes of the pictures that decode.
C11_FailingPayloadsGetPlaceholder ==
    (/\ d_pc \in {"returned", "raised_error"}
     /\ \E i \in DOMAIN d_payloads : ~d_payloads[i].valid)
    => /\ d_pc = "returned"
       /\ Len(d_out) = Len(d_payloads)
       /\ \A i \in DOMAIN d_payloads :
             d_out[i] = IF d_payloads[i].valid THEN d_payloads[i].picture
                        ELSE Placeholder

\* C18: for every list of payloads, the empty list included, a call that is
\* not interrupted returns exactly len(payloads) images, image i being the
\* decode or the placeholder of payload i.
C18_OneImagePerPayload ==
    d_pc \in {"returned", "raised_error"}
    => /\ d_pc = "returned"
       /\ Len(d_out) = Len(d_payloads)
       /\ \A i \in DOMAIN d_payloads : d_out[i] = Base64ToTensorSingle(d_payloads[i])

\* ---------------------------------------------------------------- claims on the encode cache
\* the key of the cache that was inserted or hit least recently
LeastRecentlyUsed(c) ==
    CHOOSE k \in KeysOf(c) : \A o \in KeysOf(c) : c_last_use[k] <= c_last_use[o]

\* C16: when the cache holds cache_size entries and a key that is not present
\* is inserted, exactly one entry is evicted, the one inserted or hit least
\* recently, and the cache holds cache_size entries again, the new key among
\* them.
C16_EvictsLeastRecentlyUsed ==
    [][(/\ c_clock' = c_clock + 1
        /\ Len(image_cache) = cache_size
        /\ ~c_hit')
       => /\ c_evicted' = <<LeastRecentlyUsed(image_cache)>>
          /\ Len(image_cache') = cache_size
          /\ KeysOf(image_cache')
                = (KeysOf(image_cache) \ {LeastRecentlyUsed(image_cache)})
                      \cup {TensorCacheKey(c_image')}]_vars

\* an insertion evicted an entry that was not the oldest insertion still held:
\* the older one had been hit since
C16_Witness ==
    /\ cache_size = 2
    /\ Len(c_evicted) = 1
    /\ \E k \in KeysOf(image_cache) :
          /\ k # TensorCacheKey(c_image)
          /\ c_last_use[k] > c_last_use[c_evicted[1]]
          /\ c_last_use[c_evicted[1]] > 1

\* C17: whatever calls came before, prepare_input_images returns for an image
\* the encoding tensor_to_base64 produces for it.
C17_CacheNeverChangesResult ==
    c_clock > 0 => c_encoded = TensorToBase64(c_image)

\* ---------------------------------------------------------------- claims on the error text
\* C15: the message of a failed send_request does not depend on the body of the
\* failing response: any other body would have given the same message.
C15_ErrorTextIndependentOfBody ==
    (sr_pc = "done" /\ ~IsNone(error_text))
    => \A body \in Bodies :
          ErrorMessage(sr_exit, last_net, last_status, body) = error_text

\* C19: once the interrupt has been raised during a send_request call, the call
\* is never still under way later than one poll interval (250 ms) after it, and
\* it ends with the cancellation.
C19_InterruptEndsCallWithinPollInterval ==
    (interrupted /\ int_at >= 0)
    => /\ now - int_at <= PollInterval
       /\ sr_pc = "done" => sr_exit = "interrupt"

C13_FailureNeverLeavesRun == runPc # "raised_error"

\* C14: when the prompt is empty and there are no input images, no task is
\* handed to a worker, no worker function runs and no request is sent.
C14_InvalidInputRejectedBeforeDispatch ==
    (worker_fn = "generate_single_image" /\ ~prompt_ok)
    => \A j \in Jobs : jobState[j] \in NotBegun /\ jobPosts[j] = 0

\* C20: while the interrupt is raised, no job begins a network attempt and no
\* job that had not started begins to run, whichever worker it is.
C20_NoAttemptOnceInterrupted ==
    [][interrupted
       => \A j \in Jobs :
             /\ jobPosts'[j] = jobPosts[j]
             /\ jobState'[j] = "running" => jobState[j] = "running"]_vars

\* two workers have seen the interrupt, one of them between two attempts, and
\* a third job never ran
C20_Witness ==
    /\ interrupted
    /\ Cardinality({j \in Jobs : jobOutcome[j] = "interrupt"}) >= 2
    /\ \E j \in Jobs : jobOutcome[j] = "interrupt" /\ jobPosts[j] = 1
    /\ \E j \in Jobs : jobOutcome[j] = "interrupt" /\ jobPosts[j] = 0

\* ---------------------------------------------------------------- claims on the cancelled call
\* C21 as stated: of the network outcome (response, exception, read timeout)
\* and the interrupt, the one that occurs first decides how the call ends.
C21_FirstToFireWins ==
    (p_pc \in {"returned", "raised", "cancelled"})
    => /\ p_first = "net" => p_pc = NetOutcome(p_net)
       /\ p_first = "interrupt" => p_pc = "cancelled"

\* C21 amended: the call ends Cancelled exactly when the interrupt was raised
\* before the caller took the outcome of the request (the check of line 232
\* included), also when the network outcome occurred first; otherwise it ends
\* with the network outcome.
C21_InterruptUpAtPickupWins ==
    (p_pc \in {"returned", "raised", "cancelled"})
    => /\ p_pc = "cancelled" <=> interrupted
       /\ p_first = "interrupt" => p_pc = "cancelled"
       /\ p_pc = "returned" => p_net = "response"
       /\ p_pc = "raised" => p_net \in {"exception", "timeout"}

\* the read timeout fired first, the interrupt came before the caller woke up
C21_Witness ==
    /\ p_pc = "cancelled"
    /\ p_first = "net"
    /\ p_net = "timeout"

\* C22: a cancelled call has closed its session and cleared the thread-local
\* slot, and no call is ever under way with a closed session.
C22_ClosedSessionNeverReused ==
    /\ p_pc = "cancelled" => (p_session_closed /\ p_thread_local = "None")
    /\ p_pc \in {"call", "waiting"} => ~p_session_closed

\* a later call on the worker whose first call was cancelled runs with a new
\* session
C22_Witness ==
    /\ p_calls = 2
    /\ p_session = 2
    /\ p_pc = "waiting"
    /\ ~p_session_closed

\* ---------------------------------------------------------------- claims on the retry loop
\* C23: an attempt that begins (interrupt flag down) with a finite read
\* timeout already used up ends the call with the read-timeout failure and
\* issues no POST, whatever the number of attempts left.
C23_ElapsedBudgetEndsCall ==
    [][ ( /\ sr_pc = "top"
          /\ sr_pc' # "top"
          /\ ~interrupted
          /\ ~IsNone(read_timeout_global)
          /\ Elapsed >= Val(read_timeout_global) )
        => ( /\ sr_pc' = "done"
             /\ sr_exit' = "budget"
             /\ posts' = posts ) ]_vars

\* the call ended on the elapsed budget at the very limit, attempts remaining
C23_Witness ==
    /\ sr_pc = "done"
    /\ sr_exit = "budget"
    /\ Elapsed = Val(read_timeout_global)
    /\ attempt < effective_max_retries
    /\ posts = attempt - 1

RECURSIVE Pow(_, _)
Pow(b, e) == IF e = 0 THEN 1 ELSE b * Pow(b, e - 1)

\* C24: the k-th sleep follows attempt k, lasts 2 s * 1.5^(k-1), and is taken
\* only after a retried failure of an attempt that is not the last; no sleep
\* follows the last attempt, a success or a terminal failure.
C24_BackoffSchedule ==
    /\ \A k \in 1 .. Len(sleeps) :
          /\ sleeps[k][1] = k
          /\ k < effective_max_retries
          /\ sleeps[k][2] * Pow(2, k - 1) = BASE_BACKOFF * Pow(3, k - 1)
    /\ sr_pc = "sleep" =>
          /\ attempt < effective_max_retries
          /\ last_error_phase \in {"connect", "read", "http"}
          /\ Len(sleeps) = attempt - 1
    /\ sr_pc \in {"top", "posting"} => Len(sleeps) = attempt - 1
    /\ sr_pc = "done" => Len(sleeps) <= attempt - 1 \/ attempt = 0
    /\ Len(sleeps) <= posts

\* three sleeps were taken: 2 s, 3 s and 4.5 s
C24_Witness ==
    /\ Len(sleeps) = 3
    /\ sleeps[3] = <<3, 4500>>

\* ---------------------------------------------------------------- claims on the pool and the progress reports
\* C25: in a parallel run the jobs executing at one time never exceed
\* actual_workers, which itself never exceeds the number of jobs.
C25_RunningWithinPoolSize ==
    IsParallel =>
       /\ Cardinality(Running) <= actual_workers
       /\ actual_workers <= batch_size

\* the pool is full while a job waits in its queue
C25_Witness ==
    /\ IsParallel
    /\ runPc \in {"wait", "process"}
    /\ Cardinality(Running) = actual_workers
    /\ Queued # {}

\* C27 as stated: one progress_callback per appended result, with
\* completed = k and total = batch_size at the k-th, and the job reported is
\* each time the one whose worker ended first among those not yet reported.
C27_ReportedInCompletionOrder ==
    [][ Len(progress') > Len(progress) =>
          /\ progress' = Append(progress,
                                [index |-> results'[Len(results')].index,
                                 completed |-> Len(progress) + 1,
                                 total |-> batch_size])
          /\ IsParallel => progress'[Len(progress')].index \in {Head(unreported), -1} ]_vars

\* C27 amended: one progress_callback per appended result, in the order of
\* the results list, with completed = k and total = batch_size at the k-th,
\* each made by a step of the scheduling thread.
C27_ProgressMatchesResults ==
    /\ Len(progress) = Len(results)
    /\ completed = Len(results)
    /\ \A k \in 1 .. Len(progress) :
          progress[k] = [index |-> results[k].index, completed |-> k,
                         total |-> batch_size]
    /\ Len(progress) > 0 => runPc \in {"process", "wait", "seq", "seq_running",
                                       "returned", "raised", "raised_error"}

\* two jobs were reported, the one submitted later first
C27_Witness ==
    /\ IsParallel
    /\ Len(progress) = 2
    /\ progress[1].index > progress[2].index
    /\ progress[2].index >= 0
    /\ progress[2].completed = 2

\* ---------------------------------------------------------------- claims on the stop at the first failure
\* C29: when a parallel run with continue_on_error false has returned, every
\* job that wait() handed over as completed has its result in the returned
\* list and was reported to progress_callback.
C29_NoCompletedResultDropped ==
    (runPc = "returned" /\ IsParallel /\ ~continue_on_error)
    => \A j \in done :
          /\ \E a \in 1 .. Len(returned) : returned[a] = ResultOf(j)
          /\ \E k \in 1 .. Len(progress) : progress[k].index = ResultOf(j).index

\* C30: when run has returned normally, every job has ended or never began
\* (cancelled in the queue, or not reached by the sequential loop); none is
\* still executing or waiting to be executed.
C30_NoJobRunsAfterReturn ==
    runPc = "returned" =>
       \A j \in Jobs : jobState[j] \in {"finished", "cancelled", "new"}

\* ---------------------------------------------------------------- claims on the shared cache
\* C26: whatever the interleaving of the threads' lookups and inserts, the
\* cache holds at most max(1, cache_size) entries and at most one per key.
C26_CacheBoundedOneEntryPerKey ==
    c_pc = "threads" =>
       /\ Len(image_cache) <= cache_size
       /\ cache_size >= 1
       /\ Cardinality(KeysOf(image_cache)) = Len(image_cache)

\* the cache is full and a thread is about to insert a key that another
\* thread inserted after this thread's miss
C26_Witness ==
    /\ c_pc = "threads"
    /\ Len(image_cache) = cache_size
    /\ \E t \in CacheThreads :
          /\ k_pc[t] = "set"
          /\ TensorCacheKey(k_image[t]) \in KeysOf(image_cache)

\* C28: the cache lock is held only inside the lookup and inside the
\* insert-and-evict; a thread that encodes does not hold it.
C28_EncodeOutsideLock ==
    c_pc = "threads" =>
       /\ \A t \in CacheThreads : k_pc[t] = "encode" => cache_lock # t
       /\ cache_lock # 0 => k_pc[cache_lock] \in {"get", "set"}

\* one thread encodes while another is inside its lookup, holding the lock
C28_Witness ==
    /\ c_pc = "threads"
    /\ \E t \in CacheThreads, u \in CacheThreads :
          /\ k_pc[t] = "encode"
          /\ k_pc[u] = "get"
          /\ cache_lock = u

====
